---- MODULE Spec2Model ----
(***************************************************************************)
(* A model of UStableDiffusionSubsystem (StableDiffusionSubsystem.cpp):    *)
(* the capture-and-compose pipeline that turns a GenerateImage call into   *)
(* one backend generation, and the frame copy utility CopyFrameData.       *)
(*                                                                         *)
(* Execution contexts: callers and game-thread tasks run on the game       *)
(* thread, one task at a time, in the order they were queued (gtQueue);    *)
(* background tasks run on the worker pool in any order (bgTasks); the     *)
(* viewport frame is delivered by the render thread (FrameReady).          *)
(***************************************************************************)
EXTENDS Integers, Sequences, FiniteSets, TLC

\* ------------------------------------------------------------------ bounds
\* GenerateImage calls accepted in one behaviour.
MaxRequests == 2
\* InitModel calls in one behaviour.
MaxInitCalls == 1
\* Largest width and height CopyFrameData is exercised with.
MaxDim == 2

ReqIds == 1..MaxRequests

\* ------------------------------------------------------------ value domains
Min(a, b) == IF a < b THEN a ELSE b

\* EInputImageSource: the two values GenerateImage branches on, and any other.
ImageSources == {"Viewport", "SceneCapture2D", "Other"}

\* Layer processor kinds a model may declare (ModelOptions.Layers), in order.
LayerConfigs ==
    { <<>>, <<"FinalColor">>, <<"Depth">>,
      <<"FinalColor", "Depth">>, <<"Depth", "FinalColor">> }

\* Sizes the capturing viewport may have (GetCapturingViewport()->GetSizeXY()).
ViewportSizes == { <<2, 1>>, <<2, 2>> }

\* The resolution of the texture target of the explicit capture source that
\* has one (CaptureComponent->TextureTarget->SizeX, SizeY).
ExplicitTargetSize == <<1, 2>>

NoSize == <<0, 0>>

\* Pixel buffers.  A layer processor's off-screen capture is known by the kind
\* that produced it, the capture component it rendered and the size it was
\* begun with; a live frame by the copied frame data.
NoPixels == [origin |-> "none", source |-> "none", size |-> NoSize, data |-> <<>>]
StalePixels == [origin |-> "caller", source |-> "none", size |-> NoSize, data |-> <<>>]
OffscreenPixels(kind, size, source) ==
    [origin |-> kind, source |-> source, size |-> size, data |-> <<>>]
LivePixels(size, data) ==
    [origin |-> "live", source |-> "viewport", size |-> size, data |-> data]

\* FLayerData entries a caller may leave in Input.ProcessedLayers.
StaleLayers == << [kind |-> "FinalColor", LayerPixels |-> StalePixels] >>

MakeInput(src, layers) ==
    [CaptureSource |-> src, ProcessedLayers |-> layers, InSize |-> NoSize]
NoInput == MakeInput("None", <<>>)

\* The (Input, ImageSourceType) arguments GenerateImage is called with.
\* CaptureSource is "None" (nullptr), or an explicit capture component with or
\* without a texture target.
Calls ==
    { <<MakeInput("None", <<>>), "Viewport">>,
      <<MakeInput("None", StaleLayers), "Viewport">>,
      <<MakeInput("None", <<>>), "SceneCapture2D">>,
      <<MakeInput("WithTarget", StaleLayers), "SceneCapture2D">>,
      <<MakeInput("NoTarget", <<>>), "SceneCapture2D">>,
      <<MakeInput("None", <<>>), "Other">> }

\* ------------------------------------------------------------ CopyFrameData
\* The frame the render thread hands over: BufferSize.X * BufferSize.Y
\* pixels, row-major; pixel i holds base + i.
SourceFrame(BufferSize, base) ==
    [i \in 1..(BufferSize[1] * BufferSize[2]) |-> base + i]

\* One FMemory::Memcpy(Dest, ColorBuffer, sizeof(FColor) * MaxWidth) of the
\* loop, followed by the two pointer increments.  Dest and Src are 0-based
\* element offsets; writes and reads collect every element index touched.
CopyRow(st, ColorBuffer, BufferSize, MaxWidth, Fill) ==
    [ buf    |-> [i \in DOMAIN st.buf |->
                    IF i - 1 >= st.Dest /\ i - 1 < st.Dest + MaxWidth
                    THEN IF (i - st.Dest + st.Src) \in DOMAIN ColorBuffer
                         THEN ColorBuffer[i - st.Dest + st.Src]
                         ELSE Fill
                    ELSE st.buf[i]],
      writes |-> st.writes \cup { st.Dest + k : k \in 1..MaxWidth },
      reads  |-> st.reads \cup { st.Src + k : k \in 1..MaxWidth },
      Dest   |-> st.Dest + MaxWidth,
      Src    |-> st.Src + BufferSize[1] ]

RECURSIVE CopyRows(_, _, _, _, _, _, _)
CopyRows(Row, Rows, st, ColorBuffer, BufferSize, MaxWidth, Fill) ==
    IF Row >= Rows THEN st
    ELSE CopyRows(Row + 1, Rows,
                  CopyRow(st, ColorBuffer, BufferSize, MaxWidth, Fill),
                  ColorBuffer, BufferSize, MaxWidth, Fill)

\* CopyFrameData(TargetSize, BufferSize, ColorBuffer).  InsertUninitialized
\* leaves every element holding whatever the allocation held (Fill).
\* &CopiedFrame[0] is TArray::operator[], which range-checks the index: on an
\* empty array the check fails and the call faults before the loop.
CopyFrameData(TargetSize, BufferSize, ColorBuffer, Fill) ==
    LET Num      == TargetSize[1] * TargetSize[2]
        Copied   == [i \in 1..Num |-> Fill]
        MaxWidth == Min(TargetSize[1], BufferSize[1])
        Rows     == Min(TargetSize[2], BufferSize[2])
        start    == [buf |-> Copied, writes |-> {}, reads |-> {},
                     Dest |-> 0, Src |-> 0]
    IN  IF Num = 0
        THEN [fault |-> TRUE, buf |-> Copied, writes |-> {}, reads |-> {}]
        ELSE LET end == CopyRows(0, Rows, start, ColorBuffer, BufferSize,
                                 MaxWidth, Fill)
             IN  [fault |-> FALSE, buf |-> end.buf,
                  writes |-> end.writes, reads |-> end.reads]

\* ------------------------------------------------------------------- state
VARIABLES
    GeneratorBridge,      \* the generator bridge object exists
    ModelInitialised,     \* the result of the last InitModel, cleared by ReleaseModel
    ModelOptions,         \* [Layers |-> the declared layer kinds]
    bIsGenerating,        \* the in-flight flag
    ViewportCapture,      \* the FFrameGrabber the subsystem holds
    CurrentSceneCapture,  \* the remembered transient capture camera
    gtQueue,              \* tasks queued to the game thread, oldest first
    bgTasks,              \* tasks handed to the background worker pool
    faulted,              \* the process hit a failed check or a null dereference
    ViewportSize,         \* the capturing viewport's size
    PerspectiveViewport,  \* some level viewport client is perspective
    nextReq,              \* the number the next accepted GenerateImage call gets
    initCalls,            \* InitModel calls made so far
    req,                  \* what has happened to each accepted call
    fx,                   \* what the latest step did to cameras and layer processors
    cf,                   \* CopyFrameData under test: arguments and outcome
    ops,                  \* the calls the latest step made, in order, with their thread
    GAreScreenMessagesEnabled,   \* the engine's on-screen-messages flag
    GameView,             \* the level editor's game-view mode
    PlaySessionInProgress,       \* a PIE/SIE session is running
    bIsUpsampling,        \* the upsample in-progress flag
    ups,                  \* what has happened to each accepted UpsampleImage call
    PreviewedLayer,       \* the layer processor being live-previewed
    LayerPreviewCapture,  \* the live preview's capture camera
    OnLayerPreviewUpdateHandle   \* the camera-moved handler of the live preview is registered

vars == << GeneratorBridge, ModelInitialised, ModelOptions, bIsGenerating,
           ViewportCapture, CurrentSceneCapture, gtQueue, bgTasks, faulted,
           ViewportSize, PerspectiveViewport, nextReq, initCalls, req,
           fx, cf, ops, GAreScreenMessagesEnabled, GameView,
           PlaySessionInProgress, bIsUpsampling, ups, PreviewedLayer,
           LayerPreviewCapture, OnLayerPreviewUpdateHandle >>

editorVars == << GAreScreenMessagesEnabled, GameView, PlaySessionInProgress >>
upsampleVars == << bIsUpsampling, ups >>
previewVars == << PreviewedLayer, LayerPreviewCapture,
                  OnLayerPreviewUpdateHandle >>

pipelineVars == << GeneratorBridge, ModelInitialised, ModelOptions,
                   bIsGenerating, ViewportCapture, CurrentSceneCapture,
                   gtQueue, bgTasks, faulted, ViewportSize,
                   PerspectiveViewport, nextReq, initCalls, req, fx, ops,
                   editorVars, upsampleVars, previewVars >>

\* No frame grabber yet (ViewportCapture is a null shared pointer).
NoGrabber == [valid |-> FALSE, capturing |-> FALSE, FrameSize |-> NoSize,
              Pending |-> <<>>]

\* An accepted call's record.  phase: "free" (id not used yet), "queued" (the
\* game-thread step is queued), "awaiting" (its frame payload is registered
\* with a grabber), "ignored" (the step ran and took neither branch),
\* "faulted" (the step faulted), "dispatched" (StartImageGeneration queued
\* the backend task), "completed" (the backend returned), "published" (the
\* completion broadcast ran).  superseded: a later Viewport capture was
\* issued while this call's frame was still awaited.
FreeReq == [phase |-> "free", dispatches |-> 0, publications |-> 0,
            cleared |-> FALSE, superseded |-> FALSE]

\* The effects of one step that the state does not otherwise keep: capture
\* cameras spawned, Destroy calls made, layer processors driven through
\* Begin/Capture/End/Process.
Effects(spawned, destroyed, processed) ==
    [spawned |-> spawned, destroyed |-> destroyed, processed |-> processed]
NoEffects == Effects(0, 0, 0)

\* One call made by a step: what was called, on which thread ("game",
\* "render", "worker"), for which layer and on which capture camera
\* ("Transient" is the camera the step itself spawned).
Op(op, ctx, layer, camera) ==
    [op |-> op, ctx |-> ctx, layer |-> layer, camera |-> camera]

\* UpsampleImage calls accepted in one behaviour.
MaxUpsamples == 2
UpIds == 1..MaxUpsamples

\* An accepted UpsampleImage call: "free" (id not used yet), "running" (the
\* background task is pending), "completed" (the backend returned and the
\* completion task is queued), "published" (the broadcast ran).
FreeUp == [phase |-> "free", publications |-> 0]

NoCamera == [SceneCapture |-> "null", ViewportClient |-> FALSE]

NoCopy == [pc |-> "idle", TargetSize |-> NoSize, BufferSize |-> NoSize,
           ColorBuffer |-> <<>>, Fill |-> 0,
           out |-> [fault |-> FALSE, buf |-> <<>>, writes |-> {}, reads |-> {}]]

\* Everything but the bridge and the model, as the constructor leaves it.
PipelineInit ==
    /\ bIsGenerating = FALSE
    /\ ViewportCapture = NoGrabber
    /\ CurrentSceneCapture = [SceneCapture |-> "null", ViewportClient |-> FALSE]
    /\ gtQueue = <<>>
    /\ bgTasks = {}
    /\ faulted = FALSE
    /\ nextReq = 1
    /\ initCalls = 0
    /\ req = [i \in ReqIds |-> FreeReq]
    /\ fx = NoEffects
    /\ ops = <<>>
    /\ bIsUpsampling = FALSE
    /\ ups = [u \in UpIds |-> FreeUp]
    /\ PreviewedLayer = "null"
    /\ LayerPreviewCapture = NoCamera
    /\ OnLayerPreviewUpdateHandle = FALSE

\* The editor around the subsystem: the capturing viewport's size, and
\* whether any level viewport client is perspective; on-screen messages
\* shown, game view off and no play session, as the editor starts.
EditorInit ==
    /\ ViewportSize \in ViewportSizes
    /\ PerspectiveViewport \in BOOLEAN
    /\ GAreScreenMessagesEnabled = TRUE
    /\ GameView = FALSE
    /\ PlaySessionInProgress = FALSE

\* The subsystem as constructed: no bridge yet, no model.
ConstructedInit ==
    /\ GeneratorBridge = FALSE
    /\ ModelInitialised = FALSE
    /\ ModelOptions = [Layers |-> <<>>]
    /\ PipelineInit
    /\ EditorInit

\* The subsystem at rest: as constructed, or with the bridge created and any
\* number of InitModel and ReleaseModel calls completed (a model's layers
\* are kept from the last successful InitModel; ModelInitialised is false
\* after a failed InitModel or a ReleaseModel).
Init ==
    /\ GeneratorBridge \in BOOLEAN
    /\ ModelInitialised \in (IF GeneratorBridge THEN BOOLEAN ELSE {FALSE})
    /\ ModelOptions \in (IF GeneratorBridge
                         THEN { [Layers |-> L] : L \in LayerConfigs }
                         ELSE { [Layers |-> <<>>] })
    /\ PipelineInit
    /\ EditorInit
    /\ cf = NoCopy


\* ------------------------------------------------------------------- tasks
\* A task queued with AsyncTask: the lambda's kind and what it captured.
Task(type, id, Input, source, Layers, ok) ==
    [type |-> type, id |-> id, Input |-> Input, ImageSourceType |-> source,
     Layers |-> Layers, ok |-> ok]

\* ----------------------------------------------------- bridge and model setup
\* The Python-initialised callback: CreateBridge makes the generator bridge.
CreateBridge ==
    /\ ~faulted
    /\ ~GeneratorBridge
    /\ GeneratorBridge' = TRUE
    /\ UNCHANGED << ModelInitialised, ModelOptions, bIsGenerating,
                    ViewportCapture, CurrentSceneCapture, gtQueue, bgTasks,
                    faulted, ViewportSize, PerspectiveViewport, nextReq,
                    initCalls, req, cf >>
    /\ fx' = NoEffects
    /\ ops' = <<>>
    /\ UNCHANGED << editorVars, upsampleVars, previewVars >>

\* The body shared by both forms of InitModel: the bridge's InitModel result
\* becomes ModelInitialised, the model's options are kept on success, and the
\* model-initialised broadcast is queued to the game thread.
ApplyInitModel(Layers, ok) ==
    /\ ModelInitialised' = ok
    /\ ModelOptions' = IF ok THEN [Layers |-> Layers] ELSE ModelOptions
    /\ gtQueue' = Append(gtQueue,
                         Task("ModelInitialized", 0, NoInput, "none", <<>>, ok))

\* InitModel(Model, Async, ...); ok is what the bridge's InitModel returns.
InitModel(Layers, Async, ok) ==
    /\ ~faulted
    /\ initCalls < MaxInitCalls
    /\ initCalls' = initCalls + 1
    /\ IF ~GeneratorBridge
       THEN UNCHANGED << ModelInitialised, ModelOptions, gtQueue, bgTasks >>
       ELSE IF Async
            THEN /\ bgTasks' = bgTasks \cup
                        { Task("InitModel", initCalls + 1, NoInput, "none",
                               Layers, FALSE) }
                 /\ UNCHANGED << ModelInitialised, ModelOptions, gtQueue >>
            ELSE /\ ApplyInitModel(Layers, ok)
                 /\ UNCHANGED bgTasks
    /\ UNCHANGED << GeneratorBridge, bIsGenerating, ViewportCapture,
                    CurrentSceneCapture, faulted, ViewportSize,
                    PerspectiveViewport, nextReq, req, cf >>
    /\ fx' = NoEffects
    /\ ops' = IF GeneratorBridge /\ ~Async
               THEN << Op("InitModel", "game", "none", "none") >> ELSE <<>>
    /\ UNCHANGED << editorVars, upsampleVars, previewVars >>

\* The background task of the asynchronous InitModel.
InitModelTask(task, ok) ==
    /\ ~faulted
    /\ task \in bgTasks
    /\ task.type = "InitModel"
    /\ ApplyInitModel(task.Layers, ok)
    /\ bgTasks' = bgTasks \ {task}
    /\ UNCHANGED << GeneratorBridge, bIsGenerating, ViewportCapture,
                    CurrentSceneCapture, faulted, ViewportSize,
                    PerspectiveViewport, nextReq, initCalls, req, cf >>
    /\ fx' = NoEffects
    /\ ops' = << Op("InitModel", "worker", "none", "none") >>
    /\ UNCHANGED << editorVars, upsampleVars, previewVars >>

\* The game-thread task that broadcasts OnModelInitializedEx.
ModelInitializedBroadcast ==
    /\ ~faulted
    /\ gtQueue # <<>>
    /\ Head(gtQueue).type = "ModelInitialized"
    /\ gtQueue' = Tail(gtQueue)
    /\ UNCHANGED << GeneratorBridge, ModelInitialised, ModelOptions,
                    bIsGenerating, ViewportCapture, CurrentSceneCapture,
                    bgTasks, faulted, ViewportSize, PerspectiveViewport,
                    nextReq, initCalls, req, cf >>
    /\ fx' = NoEffects
    /\ ops' = << Op("Broadcast", "game", "none", "none") >>
    /\ UNCHANGED << editorVars, upsampleVars, previewVars >>

ReleaseModel ==
    /\ ~faulted
    /\ ModelInitialised' = IF GeneratorBridge THEN FALSE ELSE ModelInitialised
    /\ UNCHANGED << GeneratorBridge, ModelOptions, bIsGenerating,
                    ViewportCapture, CurrentSceneCapture, gtQueue, bgTasks,
                    faulted, ViewportSize, PerspectiveViewport, nextReq,
                    initCalls, req, cf >>
    /\ fx' = NoEffects
    /\ ops' = IF GeneratorBridge
               THEN << Op("ReleaseModel", "game", "none", "none") >> ELSE <<>>
    /\ UNCHANGED << editorVars, upsampleVars, previewVars >>

\* ------------------------------------------------------------ GenerateImage
\* The caller's part of GenerateImage: the only check is the bridge; then the
\* in-flight flag is set and the capture step is queued to the game thread.
GenerateImage(Input, ImageSourceType) ==
    /\ ~faulted
    /\ nextReq <= MaxRequests
    /\ IF ~GeneratorBridge
       THEN UNCHANGED << bIsGenerating, gtQueue, nextReq, req >>
       ELSE /\ bIsGenerating' = TRUE
            /\ gtQueue' = Append(gtQueue,
                                 Task("Capture", nextReq, Input,
                                      ImageSourceType, <<>>, FALSE))
            /\ nextReq' = nextReq + 1
            /\ req' = [req EXCEPT ![nextReq].phase = "queued"]
    /\ UNCHANGED << GeneratorBridge, ModelInitialised, ModelOptions,
                    ViewportCapture, CurrentSceneCapture, bgTasks, faulted,
                    ViewportSize, PerspectiveViewport, initCalls, cf >>
    /\ fx' = NoEffects
    /\ ops' = <<>>
    /\ UNCHANGED << editorVars, upsampleVars, previewVars >>

\* StopGeneratingImage calls through GeneratorBridge without a null check.
StopGeneratingImage ==
    /\ ~faulted
    /\ IF ~GeneratorBridge
       THEN faulted' = TRUE /\ UNCHANGED bIsGenerating
       ELSE bIsGenerating' = FALSE /\ UNCHANGED faulted
    /\ UNCHANGED << GeneratorBridge, ModelInitialised, ModelOptions,
                    ViewportCapture, CurrentSceneCapture, gtQueue, bgTasks,
                    ViewportSize, PerspectiveViewport, nextReq, initCalls,
                    req, cf >>
    /\ fx' = NoEffects
    /\ ops' = IF GeneratorBridge
               THEN << Op("StopImageGeneration", "game", "none", "none") >>
               ELSE << Op("Fault", "game", "none", "none") >>
    /\ UNCHANGED << editorVars, upsampleVars, previewVars >>

\* StartImageGeneration(Input): the backend task handed to the worker pool.
\* The task also remembers, for the properties only, which capture path
\* composed the request and the layers the model declared at that time.
StartImageGeneration(id, Input, path, declared) ==
    bgTasks \cup { Task("Generate", id, Input, path, declared, FALSE) }

\* ------------------------------------------------------------- the captures
\* CreateSceneCaptureCamera: an actor is spawned only when a perspective
\* level viewport client is found; otherwise SceneCapture stays null.
CreateSceneCaptureCamera ==
    IF PerspectiveViewport
    THEN [SceneCapture |-> "alive", ViewportClient |-> TRUE]
    ELSE [SceneCapture |-> "null", ViewportClient |-> FALSE]

\* The layer loop of both capture functions: for each declared layer, in
\* order, Begin/Capture/End on the capture component at the given size, then
\* ProcessLayer's pixels stored in a copy of the layer, added to the request.
CaptureLayers(Layers, Size, CaptureComponent) ==
    [i \in 1..Len(Layers) |->
        [kind |-> Layers[i],
         LayerPixels |-> OffscreenPixels(Layers[i], Size, CaptureComponent)]]

\* A grabber made by a mutant that keeps the payloads already registered.
SetCaptureViewportKeepingPending(FrameSize) ==
    [valid |-> TRUE, capturing |-> TRUE, FrameSize |-> FrameSize,
     Pending |-> ViewportCapture.Pending]

\* SetCaptureViewport: a new FFrameGrabber replaces the held one (which is
\* released together with any payload registered on it) and starts capturing.
SetCaptureViewport(FrameSize) ==
    [valid |-> TRUE, capturing |-> TRUE, FrameSize |-> FrameSize,
     Pending |-> <<>>]

\* ViewportCapture->CaptureThisFrame(framePtr): the payload is registered for
\* the next frame the grabber resolves.
CaptureThisFrame(Grabber, payload) ==
    [Grabber EXCEPT !.Pending = Append(@, payload)]

\* ViewportCapture->StopCapturingFrames(): no further frame is resolved.
StopCapturingFrames(Grabber) ==
    [Grabber EXCEPT !.capturing = FALSE, !.Pending = <<>>]

\* The ids of the calls whose frame payload is registered and undelivered.
AwaitingFrame == { i \in ReqIds : req[i].phase = "awaiting" }

\* The calls made on one layer's processor, in the order of the loop body.
LayerOps(kind, camera) ==
    << Op("BeginCaptureLayer", "game", kind, camera),
       Op("CaptureLayer", "game", kind, camera),
       Op("EndCaptureLayer", "game", kind, camera),
       Op("ProcessLayer", "game", kind, "none") >>

\* The layer loop: the declared layers in order.
RECURSIVE LayerLoopOps(_, _)
LayerLoopOps(Layers, camera) ==
    IF Layers = <<>> THEN <<>>
    ELSE LayerOps(Head(Layers), camera) \o LayerLoopOps(Tail(Layers), camera)

\* A mutant that never destroys the camera it spawned.
TransientCaptureOpsLeakingCamera(Layers, SceneCapture) ==
    << Op("CreateSceneCaptureCamera", "game", "none",
          IF SceneCapture.SceneCapture = "alive" THEN "Transient" ELSE "none") >>
    \o (IF SceneCapture.SceneCapture = "null"
        THEN << Op("Fault", "game", "none", "none") >>
        ELSE LayerLoopOps(Layers, "Transient"))

\* The block of CaptureFromViewportSource that runs when the model declares
\* layers: a camera is made, the layers are captured with it, and it is
\* destroyed.  With no camera the first use of it faults.
TransientCaptureOps(Layers, SceneCapture) ==
    << Op("CreateSceneCaptureCamera", "game", "none",
          IF SceneCapture.SceneCapture = "alive" THEN "Transient" ELSE "none") >>
    \o (IF SceneCapture.SceneCapture = "null"
        THEN << Op("Fault", "game", "none", "none") >>
        ELSE LayerLoopOps(Layers, "Transient")
             \o << Op("Destroy", "game", "none", "Transient") >>)

\* A mutant that asks for the frame before the layers are captured.
ViewportCaptureOpsFrameFirst(Layers, SceneCapture) ==
    << Op("SetCaptureViewport", "game", "none", "none") >>
    \o (IF Len(Layers) > 0 /\ SceneCapture.SceneCapture = "null"
        THEN <<>> ELSE << Op("CaptureThisFrame", "game", "none", "none") >>)
    \o (IF Len(Layers) > 0 THEN TransientCaptureOps(Layers, SceneCapture)
        ELSE <<>>)

\* The calls of CaptureFromViewportSource, in order.
ViewportCaptureOps(Layers, SceneCapture) ==
    << Op("SetCaptureViewport", "game", "none", "none") >>
    \o (IF Len(Layers) > 0 THEN TransientCaptureOps(Layers, SceneCapture)
        ELSE <<>>)
    \o (IF Len(Layers) > 0 /\ SceneCapture.SceneCapture = "null"
        THEN <<>> ELSE << Op("CaptureThisFrame", "game", "none", "none") >>)

\* CaptureFromViewportSource up to CaptureThisFrame (the frame lambda is
\* FrameReady below).  Layers is what the function's reads of
\* ModelOptions.Layers return.
CaptureFromViewportSource(id, Input, Layers) ==
    LET Size         == ViewportSize
        Grabber      == SetCaptureViewport(Size)
        HasLayers    == Len(Layers) > 0
        SceneCapture == CreateSceneCaptureCamera
        noted        == [i \in ReqIds |->
                            IF i \in AwaitingFrame
                            THEN [req[i] EXCEPT !.superseded = TRUE]
                            ELSE req[i]]
    IN  IF HasLayers /\ SceneCapture.SceneCapture = "null"
        THEN \* SceneCapture.SceneCapture->GetCaptureComponent2D() on null
             /\ ViewportCapture' = Grabber
             /\ faulted' = TRUE
             /\ req' = [noted EXCEPT ![id].phase = "faulted"]
             /\ fx' = NoEffects
             /\ UNCHANGED << bgTasks, CurrentSceneCapture >>
        ELSE LET Captured ==
                    IF HasLayers
                    THEN [Input EXCEPT !.ProcessedLayers =
                            CaptureLayers(Layers, Size, "Transient")]
                    ELSE Input
                 n == IF HasLayers THEN 1 ELSE 0
             IN  /\ ViewportCapture' =
                        CaptureThisFrame(Grabber,
                            [id |-> id, Input |-> Captured,
                             ViewportSize |-> Size,
                             declared |-> Layers])
                 /\ fx' = Effects(n, n, Len(Layers))
                 /\ req' = [noted EXCEPT ![id].phase = "awaiting"]
                 /\ UNCHANGED << faulted, bgTasks, CurrentSceneCapture >>

\* A mutant that always takes the viewport size.
CaptureSizeFromViewport(CaptureComponent, Size) == Size

\* FIntPoint CaptureSize = (CaptureComponent->TextureTarget) ? target's size
\* : ViewportSize.  A freshly spawned transient camera has no texture target.
CaptureSizeOf(CaptureComponent, Size) ==
    IF CaptureComponent = "WithTarget" THEN ExplicitTargetSize ELSE Size

\* A mutant that tears down whatever camera is remembered.
DestroysRemembered(Input, Current) == Current.SceneCapture # "null"

\* if (!Input.CaptureSource && this->CurrentSceneCapture.SceneCapture)
DestroysTransient(Input, Current) ==
    Input.CaptureSource = "None" /\ Current.SceneCapture # "null"

\* The calls of CaptureFromSceneCaptureSource, in order.  Current is the
\* camera the function works with: the one it just made when the input has
\* no capture source, else the remembered one.
SceneCaptureOps(Input, Current, Layers) ==
    LET explicit == Input.CaptureSource # "None"
    IN  IF ~explicit /\ Current.SceneCapture = "null"
        THEN << Op("CreateSceneCaptureCamera", "game", "none", "none"),
                Op("Fault", "game", "none", "none") >>
        ELSE (IF explicit THEN <<>>
              ELSE << Op("CreateSceneCaptureCamera", "game", "none",
                         "Transient") >>)
             \o LayerLoopOps(Layers, IF explicit THEN Input.CaptureSource
                                     ELSE "Transient")
             \o (IF DestroysTransient(Input, Current)
                 THEN << Op("Destroy", "game", "none",
                            IF explicit THEN "Remembered" ELSE "Transient") >>
                 ELSE <<>>)
             \o << Op("StartImageGeneration", "game", "none", "none") >>

\* CaptureFromSceneCaptureSource, all of it.
CaptureFromSceneCaptureSource(id, Input, Layers) ==
    LET explicit == Input.CaptureSource # "None"
        Current  == IF explicit THEN CurrentSceneCapture
                    ELSE CreateSceneCaptureCamera
        created  == IF ~explicit /\ Current.SceneCapture = "alive" THEN 1 ELSE 0
    IN  IF ~explicit /\ Current.SceneCapture = "null"
        THEN \* CurrentSceneCapture.SceneCapture->GetCaptureComponent2D() on null
             /\ CurrentSceneCapture' = Current
             /\ faulted' = TRUE
             /\ req' = [req EXCEPT ![id].phase = "faulted"]
             /\ fx' = NoEffects
             /\ UNCHANGED << bgTasks, ViewportCapture >>
        ELSE LET CaptureComponent ==
                    IF explicit THEN Input.CaptureSource ELSE "Transient"
                 CaptureSize == CaptureSizeOf(CaptureComponent, ViewportSize)
                 Composed ==
                    [Input EXCEPT
                        !.ProcessedLayers =
                            CaptureLayers(Layers, CaptureSize,
                                          CaptureComponent),
                        !.InSize = CaptureSize]
                 destroy == IF DestroysTransient(Input, Current) THEN 1 ELSE 0
             IN  /\ CurrentSceneCapture' =
                        IF destroy = 1
                        THEN [SceneCapture |-> "destroyed", ViewportClient |-> FALSE]
                        ELSE Current
                 /\ fx' = Effects(created, destroy, Len(Layers))
                 /\ bgTasks' = StartImageGeneration(id, Composed,
                                    "SceneCapture2D", Layers)
                 /\ req' = [req EXCEPT ![id].phase = "dispatched",
                                       ![id].dispatches = @ + 1]
                 /\ UNCHANGED << faulted, ViewportCapture >>

\* The calls of the game-thread task around the capture: screen messages off
\* and game view on (outside a play session) before it, both put back after.
CaptureStepOps(task, Layers) ==
    CASE task.ImageSourceType = "Viewport" ->
            ViewportCaptureOps(Layers, CreateSceneCaptureCamera)
      [] task.ImageSourceType = "SceneCapture2D" ->
            SceneCaptureOps(task.Input,
                            IF task.Input.CaptureSource # "None"
                            THEN CurrentSceneCapture
                            ELSE CreateSceneCaptureCamera,
                            Layers)
      [] OTHER -> <<>>

GameThreadStepOps(task, fault, Layers) ==
    << Op("DisableScreenMessages", "game", "none", "none") >>
    \o (IF PlaySessionInProgress THEN <<>>
        ELSE << Op("EditorSetGameView", "game", "none", "none") >>)
    \o CaptureStepOps(task, Layers)
    \o (IF fault THEN <<>>
        ELSE << Op("RestoreScreenMessages", "game", "none", "none") >>
             \o (IF PlaySessionInProgress THEN <<>>
                 ELSE << Op("RestoreGameView", "game", "none", "none") >>))

\* The game-thread task GenerateImage queued: it turns screen messages off
\* and game view on, branches on the source kind (any other value takes
\* neither branch), and puts both back when the branch returns.  Layers is
\* what its reads of ModelOptions.Layers return.
GenerateImageGameThreadReading(Layers) ==
    /\ ~faulted
    /\ gtQueue # <<>>
    /\ Head(gtQueue).type = "Capture"
    /\ LET task == Head(gtQueue)
       IN  CASE task.ImageSourceType = "Viewport" ->
                    CaptureFromViewportSource(task.id, task.Input, Layers)
             [] task.ImageSourceType = "SceneCapture2D" ->
                    CaptureFromSceneCaptureSource(task.id, task.Input, Layers)
             [] OTHER ->
                    /\ req' = [req EXCEPT ![task.id].phase = "ignored"]
                    /\ fx' = NoEffects
                    /\ UNCHANGED << ViewportCapture, CurrentSceneCapture,
                                    bgTasks, faulted >>
    /\ gtQueue' = Tail(gtQueue)
    /\ GAreScreenMessagesEnabled' =
            IF faulted' THEN FALSE ELSE GAreScreenMessagesEnabled
    /\ GameView' =
            IF faulted' /\ ~PlaySessionInProgress THEN TRUE ELSE GameView
    /\ ops' = GameThreadStepOps(Head(gtQueue), faulted', Layers)
    /\ UNCHANGED << GeneratorBridge, ModelInitialised, ModelOptions,
                    bIsGenerating, ViewportSize, PerspectiveViewport, nextReq,
                    initCalls, cf, PlaySessionInProgress, upsampleVars,
                    previewVars >>

\* The step while no other thread is writing ModelOptions.
GenerateImageGameThread == GenerateImageGameThreadReading(ModelOptions.Layers)

\* A mutant that puts the frame into the last layer.
InjectFrameIntoLast(Layers, Frame) ==
    [i \in 1..Len(Layers) |->
        IF i = Len(Layers) THEN [Layers[i] EXCEPT !.LayerPixels = Frame]
        ELSE Layers[i]]

\* FindByPredicate(IsA<UFinalColorLayerProcessor>) and the assignment of the
\* copied frame: the first FinalColor entry, if there is one, gets the frame.
InjectFrame(Layers, Frame) ==
    LET finals == { i \in 1..Len(Layers) : Layers[i].kind = "FinalColor" }
    IN  [i \in 1..Len(Layers) |->
            IF finals # {} /\ i = CHOOSE m \in finals : \A k \in finals : m <= k
            THEN [Layers[i] EXCEPT !.LayerPixels = Frame]
            ELSE Layers[i]]

\* The calls of the frame lambda, in order; all of them are made on the
\* thread that resolves the frame, the render thread.
FrameReadyOps(Layers, fault) ==
    << Op("CopyFrameData", "render", "none", "none") >>
    \o (IF fault THEN << Op("Fault", "render", "none", "none") >>
        ELSE (IF \E i \in 1..Len(Layers) : Layers[i].kind = "FinalColor"
              THEN << Op("SetLayerPixels", "render", "FinalColor", "none") >>
              ELSE <<>>)
             \o << Op("StopCapturingFrames", "render", "none", "none"),
                   Op("SetInSize", "render", "none", "none"),
                   Op("StartImageGeneration", "render", "none", "none") >>)

\* The frame lambda of CaptureFromViewportSource, run by the grabber through
\* FCapturedFramePayload::OnFrameReady_RenderThread for the oldest payload.
FrameReady ==
    /\ ~faulted
    /\ ViewportCapture.valid
    /\ ViewportCapture.capturing
    /\ ViewportCapture.Pending # <<>>
    /\ LET payload    == Head(ViewportCapture.Pending)
           TargetSize == ViewportCapture.FrameSize
           BufferSize == TargetSize
           Copied     == CopyFrameData(TargetSize, BufferSize,
                                       SourceFrame(BufferSize, 0), 0)
           Composed   ==
                [payload.Input EXCEPT
                    !.ProcessedLayers =
                        InjectFrame(@, LivePixels(TargetSize, Copied.buf)),
                    !.InSize = payload.ViewportSize]
       IN  IF Copied.fault
           THEN /\ faulted' = TRUE
                /\ UNCHANGED << ViewportCapture, bgTasks, req >>
           ELSE /\ ViewportCapture' = StopCapturingFrames(ViewportCapture)
                /\ bgTasks' = StartImageGeneration(payload.id, Composed,
                                    "Viewport", payload.declared)
                /\ req' = [req EXCEPT ![payload.id].phase = "dispatched",
                                      ![payload.id].dispatches = @ + 1]
                /\ UNCHANGED faulted
    /\ UNCHANGED << GeneratorBridge, ModelInitialised, ModelOptions,
                    bIsGenerating, CurrentSceneCapture, gtQueue, ViewportSize,
                    PerspectiveViewport, nextReq, initCalls, cf >>
    /\ fx' = NoEffects
    /\ ops' = FrameReadyOps(Head(ViewportCapture.Pending).Input.ProcessedLayers,
                            faulted')
    /\ UNCHANGED << editorVars, upsampleVars, previewVars >>

\* ------------------------------------------------------------- the backend
\* The background task of StartImageGeneration: the backend returns a result
\* (ok or failed), the in-flight flag is cleared, and the completion
\* broadcast is queued to the game thread.
GenerateImageTask(task, ok) ==
    /\ ~faulted
    /\ task \in bgTasks
    /\ task.type = "Generate"
    /\ bIsGenerating' = FALSE
    /\ bgTasks' = bgTasks \ {task}
    /\ gtQueue' = Append(gtQueue,
                         Task("GenerationComplete", task.id, NoInput,
                              "none", <<>>, ok))
    /\ req' = [req EXCEPT ![task.id].phase = "completed",
                          ![task.id].cleared = TRUE]
    /\ UNCHANGED << GeneratorBridge, ModelInitialised, ModelOptions,
                    ViewportCapture, CurrentSceneCapture, faulted,
                    ViewportSize, PerspectiveViewport, nextReq, initCalls,
                    cf >>
    /\ fx' = NoEffects
    /\ ops' = << Op("GenerateImageFromStartImage", "worker", "none", "none") >>
    /\ UNCHANGED << editorVars, upsampleVars, previewVars >>

\* The game-thread task that broadcasts OnImageGenerationCompleteEx(result).
OnImageGenerationComplete ==
    /\ ~faulted
    /\ gtQueue # <<>>
    /\ Head(gtQueue).type = "GenerationComplete"
    /\ gtQueue' = Tail(gtQueue)
    /\ req' = [req EXCEPT ![Head(gtQueue).id].phase = "published",
                          ![Head(gtQueue).id].publications = @ + 1]
    /\ UNCHANGED << GeneratorBridge, ModelInitialised, ModelOptions,
                    bIsGenerating, ViewportCapture, CurrentSceneCapture,
                    bgTasks, faulted, ViewportSize, PerspectiveViewport,
                    nextReq, initCalls, cf >>
    /\ fx' = NoEffects
    /\ ops' = << Op("Broadcast", "game", "none", "none") >>
    /\ UNCHANGED << editorVars, upsampleVars, previewVars >>

\* ------------------------------------- InitModel beside the capture step
\* The background lambda of the asynchronous InitModel runs on a pool thread
\* and the capture step on the game thread, with nothing to order them.  The
\* lambda in two parts: the bridge's InitModel has returned true and the
\* assignment ModelOptions = Model has begun ...
InitModelTaskBegin(task) ==
    /\ ~faulted
    /\ task \in bgTasks
    /\ task.type = "InitModel"
    /\ ModelInitialised' = TRUE
    /\ bgTasks' = (bgTasks \ {task})
                    \cup { Task("InitModelWriting", task.id, NoInput, "none",
                                task.Layers, TRUE) }
    /\ UNCHANGED << GeneratorBridge, ModelOptions, bIsGenerating,
                    ViewportCapture, CurrentSceneCapture, gtQueue, faulted,
                    ViewportSize, PerspectiveViewport, nextReq, initCalls,
                    req, cf, editorVars, upsampleVars, previewVars >>
    /\ fx' = NoEffects
    /\ ops' = << Op("InitModel", "worker", "none", "none") >>

\* ... and the assignment is complete and the broadcast is queued.
InitModelTaskEnd(task) ==
    /\ ~faulted
    /\ task \in bgTasks
    /\ task.type = "InitModelWriting"
    /\ ModelOptions' = [Layers |-> task.Layers]
    /\ gtQueue' = Append(gtQueue,
                         Task("ModelInitialized", 0, NoInput, "none", <<>>, TRUE))
    /\ bgTasks' = bgTasks \ {task}
    /\ UNCHANGED << GeneratorBridge, ModelInitialised, bIsGenerating,
                    ViewportCapture, CurrentSceneCapture, faulted,
                    ViewportSize, PerspectiveViewport, nextReq, initCalls,
                    req, cf, editorVars, upsampleVars, previewVars >>
    /\ fx' = NoEffects
    /\ ops' = << Op("AssignModelOptions", "worker", "none", "none") >>

\* The assignments of ModelOptions in progress on a worker thread.
WritesInProgress == { t \in bgTasks : t.type = "InitModelWriting" }

\* What a loop over ModelOptions.Layers may see while another thread assigns
\* the array (a data race): the old array, the new one, or the first
\* elements of the old followed by the rest of the new.
RacyViews(old, new) ==
    {old, new}
    \cup { SubSeq(old, 1, k) \o SubSeq(new, k + 1, Len(new)) :
                k \in 0..Len(old) }

\* The capture step run while an assignment of ModelOptions is in progress.
GenerateImageGameThreadRacing ==
    \E w \in WritesInProgress :
        \E seen \in RacyViews(ModelOptions.Layers, w.Layers) :
            GenerateImageGameThreadReading(seen)

\* The other outcome of the race: the loop reads the array's storage after
\* the assignment released it, and the process faults.
GenerateImageGameThreadRacingFault ==
    /\ ~faulted
    /\ WritesInProgress # {}
    /\ gtQueue # <<>>
    /\ Head(gtQueue).type = "Capture"
    /\ Head(gtQueue).ImageSourceType \in {"Viewport", "SceneCapture2D"}
    /\ gtQueue' = Tail(gtQueue)
    /\ faulted' = TRUE
    /\ req' = [req EXCEPT ![Head(gtQueue).id].phase = "faulted"]
    /\ GAreScreenMessagesEnabled' = FALSE
    /\ GameView' = IF PlaySessionInProgress THEN GameView ELSE TRUE
    /\ fx' = NoEffects
    /\ ops' = << Op("DisableScreenMessages", "game", "none", "none"),
                 Op("Fault", "game", "none", "none") >>
    /\ UNCHANGED << GeneratorBridge, ModelInitialised, ModelOptions,
                    bIsGenerating, ViewportCapture, CurrentSceneCapture,
                    bgTasks, ViewportSize, PerspectiveViewport, nextReq,
                    initCalls, cf, PlaySessionInProgress, upsampleVars,
                    previewVars >>

\* ------------------------------------------------------------- UpsampleImage
\* A mutant that refuses an upsample while a generation is in flight.
UpsampleAcceptedWhenIdle == GeneratorBridge /\ ~bIsGenerating

\* if (!GeneratorBridge) return;
UpsampleAccepted == GeneratorBridge

\* The ids of UpsampleImage calls not made yet.
FreeUpIds == { u \in UpIds : ups[u].phase = "free" }

\* The caller's part of UpsampleImage: with a bridge the upsample flag is set
\* and the backend task is handed to the worker pool.
UpsampleImage ==
    /\ ~faulted
    /\ FreeUpIds # {}
    /\ LET u == CHOOSE m \in FreeUpIds : \A k \in FreeUpIds : m <= k
       IN  IF ~UpsampleAccepted
           THEN UNCHANGED << bIsUpsampling, ups, bgTasks >>
           ELSE /\ bIsUpsampling' = TRUE
                /\ bgTasks' = bgTasks \cup
                        { Task("Upsample", u, NoInput, "none", <<>>, FALSE) }
                /\ ups' = [ups EXCEPT ![u].phase = "running"]
    /\ UNCHANGED << GeneratorBridge, ModelInitialised, ModelOptions,
                    bIsGenerating, ViewportCapture, CurrentSceneCapture,
                    gtQueue, faulted, ViewportSize, PerspectiveViewport,
                    nextReq, initCalls, req, cf, editorVars, previewVars >>
    /\ fx' = NoEffects
    /\ ops' = <<>>

\* The background task of UpsampleImage: the backend upsamples and the
\* completion task is queued to the game thread.
UpsampleTask(task) ==
    /\ ~faulted
    /\ task \in bgTasks
    /\ task.type = "Upsample"
    /\ bgTasks' = bgTasks \ {task}
    /\ gtQueue' = Append(gtQueue,
                         Task("UpsampleComplete", task.id, NoInput, "none",
                              <<>>, TRUE))
    /\ ups' = [ups EXCEPT ![task.id].phase = "completed"]
    /\ UNCHANGED << GeneratorBridge, ModelInitialised, ModelOptions,
                    bIsGenerating, ViewportCapture, CurrentSceneCapture,
                    faulted, ViewportSize, PerspectiveViewport, nextReq,
                    initCalls, req, cf, bIsUpsampling, editorVars,
                    previewVars >>
    /\ fx' = NoEffects
    /\ ops' = << Op("UpsampleImage", "worker", "none", "none") >>

\* The game-thread task that clears the upsample flag and broadcasts
\* OnImageUpsampleCompleteEx(result).
OnImageUpsampleComplete ==
    /\ ~faulted
    /\ gtQueue # <<>>
    /\ Head(gtQueue).type = "UpsampleComplete"
    /\ gtQueue' = Tail(gtQueue)
    /\ bIsUpsampling' = FALSE
    /\ ups' = [ups EXCEPT ![Head(gtQueue).id].phase = "published",
                          ![Head(gtQueue).id].publications = @ + 1]
    /\ UNCHANGED << GeneratorBridge, ModelInitialised, ModelOptions,
                    bIsGenerating, ViewportCapture, CurrentSceneCapture,
                    bgTasks, faulted, ViewportSize, PerspectiveViewport,
                    nextReq, initCalls, req, cf, editorVars, previewVars >>
    /\ fx' = NoEffects
    /\ ops' = << Op("Broadcast", "game", "none", "none") >>

\* -------------------------------------------------------------- live preview
\* Layer processors a preview may be started for, and the capture sources it
\* may be given ("None" is nullptr).
PreviewLayers == {"L1", "L2"}
PreviewSources == {"None", "NoTarget"}

\* Teardown tasks that may be queued at once.
MaxTeardowns == 3

\* The part of DisableLivePreviewForLayer before PreviewedLayer = nullptr:
\* with a camera and a valid previewed layer the teardown is queued to the
\* game thread.
TeardownQueued(Previewed, Capture) ==
    IF Capture.SceneCapture # "null" /\ Previewed # "null"
    THEN << Task("PreviewTeardown", 0, NoInput, "none", <<>>, FALSE) >>
    ELSE <<>>

\* SetLivePreviewForLayer(Size, Layer, CaptureSource).  The camera is made
\* only when no capture source is given and none exists; BeginCaptureLayer is
\* always called on LayerPreviewCapture's camera, which is dereferenced
\* unchecked.
SetLivePreviewForLayer(Layer, CaptureSource) ==
    /\ ~faulted
    /\ Len(gtQueue) < MaxTeardowns
    /\ LET queued == TeardownQueued(PreviewedLayer, LayerPreviewCapture)
           makes  == CaptureSource = "None"
                        /\ LayerPreviewCapture.SceneCapture = "null"
           Capture == IF makes THEN CreateSceneCaptureCamera
                      ELSE LayerPreviewCapture
           absent == Capture.SceneCapture = "null"
       IN  /\ gtQueue' = gtQueue \o queued
           /\ PreviewedLayer' = Layer
           /\ LayerPreviewCapture' = Capture
           /\ OnLayerPreviewUpdateHandle' =
                    (makes \/ OnLayerPreviewUpdateHandle)
           /\ faulted' = absent
           /\ fx' = Effects(IF makes /\ ~absent THEN 1 ELSE 0, 0, 0)
           /\ ops' = (IF makes
                      THEN << Op("CreateSceneCaptureCamera", "game", "none",
                                 IF absent THEN "none" ELSE "Preview") >>
                      ELSE <<>>)
                     \o (IF absent
                         THEN << Op("Fault", "game", Layer, "none") >>
                         ELSE << Op("BeginCaptureLayer", "game", Layer, "Preview"),
                                 Op("CaptureLayer", "game", Layer, CaptureSource) >>)
    /\ UNCHANGED << GeneratorBridge, ModelInitialised, ModelOptions,
                    bIsGenerating, ViewportCapture, CurrentSceneCapture,
                    bgTasks, ViewportSize, PerspectiveViewport, nextReq,
                    initCalls, req, cf, editorVars, upsampleVars >>

\* DisableLivePreviewForLayer().
DisableLivePreviewForLayer ==
    /\ ~faulted
    /\ Len(gtQueue) < MaxTeardowns
    /\ gtQueue' = gtQueue \o TeardownQueued(PreviewedLayer, LayerPreviewCapture)
    /\ PreviewedLayer' = "null"
    /\ UNCHANGED << GeneratorBridge, ModelInitialised, ModelOptions,
                    bIsGenerating, ViewportCapture, CurrentSceneCapture,
                    bgTasks, faulted, ViewportSize, PerspectiveViewport,
                    nextReq, initCalls, req, cf, editorVars, upsampleVars,
                    LayerPreviewCapture, OnLayerPreviewUpdateHandle >>
    /\ fx' = NoEffects
    /\ ops' = <<>>

\* The game-thread task DisableLivePreviewForLayer queued.  It works on
\* whatever PreviewedLayer and LayerPreviewCapture hold when it runs: it ends
\* the capture of the layer then previewed, removes the camera-moved handler,
\* destroys the camera and forgets it.
PreviewTeardown ==
    /\ ~faulted
    /\ gtQueue # <<>>
    /\ Head(gtQueue).type = "PreviewTeardown"
    /\ gtQueue' = Tail(gtQueue)
    /\ LET absent == LayerPreviewCapture.SceneCapture = "null"
       IN  /\ faulted' = absent
           /\ OnLayerPreviewUpdateHandle' =
                    IF absent /\ PreviewedLayer # "null"
                    THEN OnLayerPreviewUpdateHandle ELSE FALSE
           /\ LayerPreviewCapture' =
                    IF absent THEN LayerPreviewCapture ELSE NoCamera
           /\ fx' = Effects(0, IF absent THEN 0 ELSE 1, 0)
           /\ ops' = (IF PreviewedLayer # "null" /\ ~absent
                      THEN << Op("EndCaptureLayer", "game", PreviewedLayer,
                                 "Preview") >>
                      ELSE <<>>)
                     \o (IF absent
                         THEN << Op("Fault", "game", PreviewedLayer, "none") >>
                         ELSE << Op("Destroy", "game", "none", "Preview") >>)
    /\ UNCHANGED << GeneratorBridge, ModelInitialised, ModelOptions,
                    bIsGenerating, ViewportCapture, CurrentSceneCapture,
                    bgTasks, ViewportSize, PerspectiveViewport, nextReq,
                    initCalls, req, cf, editorVars, upsampleVars,
                    PreviewedLayer >>

\* FEditorDelegates::OnEditorCameraMoved: the registered handler calls
\* UpdateSceneCaptureCamera(LayerPreviewCapture), which moves the camera and
\* captures the previewed layer again.
EditorCameraMoved ==
    /\ ~faulted
    /\ OnLayerPreviewUpdateHandle
    /\ faulted' = (LayerPreviewCapture.SceneCapture = "null")
    /\ ops' = IF LayerPreviewCapture.SceneCapture = "null"
              THEN << Op("Fault", "game", "none", "none") >>
              ELSE << Op("UpdateSceneCaptureCamera", "game", "none", "Preview") >>
                   \o (IF PreviewedLayer # "null"
                       THEN << Op("CaptureLayer", "game", PreviewedLayer,
                                  "Preview") >>
                       ELSE <<>>)
    /\ UNCHANGED << GeneratorBridge, ModelInitialised, ModelOptions,
                    bIsGenerating, ViewportCapture, CurrentSceneCapture,
                    gtQueue, bgTasks, ViewportSize, PerspectiveViewport,
                    nextReq, initCalls, req, cf, editorVars, upsampleVars,
                    previewVars >>
    /\ fx' = NoEffects

\* ------------------------------------------------------------ specification
\* The pipeline with the model it was given.
Next ==
    \/ CreateBridge
    \/ ReleaseModel
    \/ \E call \in Calls : GenerateImage(call[1], call[2])
    \/ StopGeneratingImage
    \/ GenerateImageGameThread
    \/ FrameReady
    \/ \E task \in bgTasks, ok \in BOOLEAN : GenerateImageTask(task, ok)
    \/ OnImageGenerationComplete

Spec == Init /\ [][Next]_vars

\* The subsystem from its construction on, model initialisation included.
ModelNext ==
    \/ Next
    \/ \E L \in LayerConfigs, Async \in BOOLEAN, ok \in BOOLEAN :
            InitModel(L, Async, ok)
    \/ \E task \in bgTasks, ok \in BOOLEAN : InitModelTask(task, ok)
    \/ ModelInitializedBroadcast

ModelInit == ConstructedInit /\ cf = NoCopy

ModelSpec == ModelInit /\ [][ModelNext]_vars


\* Scheduling: the game thread keeps running its queued tasks, the worker
\* pool keeps running the tasks handed to it, and the viewport keeps being
\* rendered, so a capturing grabber with a payload gets its frame.
GameThread == GenerateImageGameThread \/ OnImageGenerationComplete
Worker == \E task \in bgTasks, ok \in BOOLEAN : GenerateImageTask(task, ok)

LiveSpec ==
    /\ Init
    /\ [][Next]_vars
    /\ WF_vars(GameThread)
    /\ WF_vars(Worker)
    /\ WF_vars(FrameReady)

\* Generation and upsampling side by side, for one model (a FinalColor
\* layer), one viewport size, two kinds of GenerateImage call and a backend
\* whose generations succeed.
\* GenerateImage calls accepted in one behaviour of UpsampleSpec.
MaxGenerationsBeside == 1

UpsampleCalls ==
    { <<MakeInput("None", <<>>), "Viewport">>,
      <<MakeInput("NoTarget", <<>>), "SceneCapture2D">> }

UpsampleInit ==
    /\ GeneratorBridge \in BOOLEAN
    /\ ModelInitialised = GeneratorBridge
    /\ ModelOptions = [Layers |-> <<"FinalColor">>]
    /\ PipelineInit
    /\ EditorInit
    /\ ViewportSize = <<2, 1>>
    /\ cf = NoCopy

UpsampleNext ==
    \/ CreateBridge
    \/ \E call \in UpsampleCalls :
            nextReq <= MaxGenerationsBeside /\ GenerateImage(call[1], call[2])
    \/ StopGeneratingImage
    \/ GenerateImageGameThread
    \/ FrameReady
    \/ \E task \in bgTasks : GenerateImageTask(task, TRUE)
    \/ OnImageGenerationComplete
    \/ UpsampleImage
    \/ \E task \in bgTasks : UpsampleTask(task)
    \/ OnImageUpsampleComplete

UpsampleSpec == UpsampleInit /\ [][UpsampleNext]_vars

\* The pipeline in an editor whose screen messages, game view and play
\* session may be in any state when GenerateImage is called.
AnyEditorInit ==
    /\ GeneratorBridge \in BOOLEAN
    /\ ModelInitialised = GeneratorBridge
    /\ ModelOptions \in { [Layers |-> L] : L \in LayerConfigs }
    /\ PipelineInit
    /\ ViewportSize = <<2, 1>>
    /\ PerspectiveViewport \in BOOLEAN
    /\ GAreScreenMessagesEnabled \in BOOLEAN
    /\ GameView \in BOOLEAN
    /\ PlaySessionInProgress \in BOOLEAN
    /\ cf = NoCopy

EditorSpec == AnyEditorInit /\ [][Next]_vars

\* InitModel beside GenerateImage: a bridge and a layered model at rest, an
\* editor with a perspective viewport, and the two capture paths.
RaceCalls ==
    { <<MakeInput("None", <<>>), "Viewport">>,
      <<MakeInput("NoTarget", <<>>), "SceneCapture2D">> }

RaceInit ==
    /\ GeneratorBridge = TRUE
    /\ ModelInitialised = TRUE
    /\ ModelOptions \in { [Layers |-> L] : L \in LayerConfigs \ {<<>>} }
    /\ PipelineInit
    /\ EditorInit
    /\ ViewportSize = <<2, 1>>
    /\ PerspectiveViewport = TRUE
    /\ cf = NoCopy

RaceNext ==
    \/ \E L \in LayerConfigs, Async \in BOOLEAN, ok \in BOOLEAN :
            InitModel(L, Async, ok)
    \/ \E task \in bgTasks : InitModelTask(task, FALSE)
    \/ \E task \in bgTasks : InitModelTaskBegin(task)
    \/ \E task \in bgTasks : InitModelTaskEnd(task)
    \/ ModelInitializedBroadcast
    \/ \E call \in RaceCalls : GenerateImage(call[1], call[2])
    \/ GenerateImageGameThread
    \/ GenerateImageGameThreadRacing
    \/ GenerateImageGameThreadRacingFault
    \/ FrameReady
    \/ \E task \in bgTasks : GenerateImageTask(task, TRUE)
    \/ OnImageGenerationComplete

RaceSpec == RaceInit /\ [][RaceNext]_vars

\* The live preview on its own.
PreviewNext ==
    \/ \E Layer \in PreviewLayers, CaptureSource \in PreviewSources :
            SetLivePreviewForLayer(Layer, CaptureSource)
    \/ DisableLivePreviewForLayer
    \/ PreviewTeardown
    \/ EditorCameraMoved

PreviewSpec == ModelInit /\ [][PreviewNext]_vars

\* ------------------------------------------------- CopyFrameData on its own
Dims == 0..MaxDim
Sizes == Dims \X Dims

\* First pixel values of the source frames tried, and the values an
\* unwritten element of the copy may hold.
FrameBases == {0, 10}
FillValues == {1, 99}

CopyInit ==
    /\ ConstructedInit
    /\ \E T \in Sizes, B \in Sizes, base \in FrameBases, fill \in FillValues :
            cf = [NoCopy EXCEPT !.pc = "ready", !.TargetSize = T,
                                !.BufferSize = B,
                                !.ColorBuffer = SourceFrame(B, base),
                                !.Fill = fill]

CopyFrameDataCall ==
    /\ cf.pc = "ready"
    /\ cf' = [cf EXCEPT !.pc = "done",
                        !.out = CopyFrameData(cf.TargetSize, cf.BufferSize,
                                              cf.ColorBuffer, cf.Fill)]
    /\ UNCHANGED pipelineVars

CopyNext == CopyFrameDataCall

CopySpec == CopyInit /\ [][CopyNext]_vars

\* ================================================================== claims
GenerateImageCall == \E call \in Calls : GenerateImage(call[1], call[2])

GenerateTasks == { t \in bgTasks : t.type = "Generate" }

\* The frame the viewport delivers and its faithful copy.
LiveFrame == LivePixels(ViewportSize, SourceFrame(ViewportSize, 0))

\* C1: a GenerateImage call made while the bridge is absent or the model is
\* not initialised changes nothing: the in-flight flag keeps its value, no
\* capture step is queued, no camera is made and nothing is dispatched.
C1_NotReadyIsRejected ==
    [][ ((~GeneratorBridge \/ ~ModelInitialised) /\ GenerateImageCall)
            => /\ UNCHANGED << bIsGenerating, gtQueue, bgTasks, req,
                               ViewportCapture, CurrentSceneCapture >>
               /\ fx'.spawned = 0 ]_vars

\* C2: a GenerateImage call made while the in-flight flag is set queues no
\* capture step, makes no camera, replaces no frame grabber and dispatches
\* nothing.
C2_InFlightCallIsRejected ==
    [][ (bIsGenerating /\ GenerateImageCall)
            => /\ UNCHANGED << gtQueue, bgTasks, req, ViewportCapture >>
               /\ fx'.spawned = 0 ]_vars

\* C3: at most one accepted call is between its acceptance and the
\* publication of its result, and at most one backend generation is pending
\* or executing.
InFlight ==
    { i \in ReqIds :
        req[i].phase \in {"queued", "awaiting", "dispatched", "completed"} }

C3_AtMostOneInFlight ==
    /\ Cardinality(InFlight) <= 1
    /\ Cardinality(GenerateTasks) <= 1

\* C4: the grabber holds at most one frame payload; a call whose frame was
\* still awaited when a later Viewport capture was issued is never
\* dispatched, and the payload held is that of the latest capture issued,
\* which the next frame is delivered to, once.
C4_PendingFrameIsTheLatest ==
    /\ Len(ViewportCapture.Pending) <= 1
    /\ \A i \in ReqIds :
        /\ req[i].dispatches <= 1
        /\ req[i].superseded =>
                /\ req[i].dispatches = 0
                /\ \A k \in 1..Len(ViewportCapture.Pending) :
                        ViewportCapture.Pending[k].id # i
        /\ (req[i].phase = "awaiting" /\ ~req[i].superseded) =>
                /\ ViewportCapture.capturing
                /\ Len(ViewportCapture.Pending) = 1
                /\ ViewportCapture.Pending[1].id = i

\* Call A was superseded by a later capture, whose frame was delivered.
C4_Witness ==
    \E a \in ReqIds, b \in ReqIds :
        /\ a < b
        /\ req[a].superseded
        /\ req[b].dispatches = 1
        /\ \E t \in GenerateTasks : t.id = b /\ t.ImageSourceType = "Viewport"

\* C5: every dispatch is eventually followed by exactly one publication of
\* that dispatch's result, the flag having been cleared before it.
C5_DispatchLeadsToPublication ==
    /\ [](\A i \in ReqIds :
            /\ req[i].publications <= req[i].dispatches
            /\ req[i].publications <= 1
            /\ req[i].publications = 1 => req[i].cleared)
    /\ \A i \in ReqIds :
            (req[i].dispatches = 1) ~> (req[i].publications = 1)

\* C6: a Viewport request of a model whose layers include FinalColor is
\* handed to the backend with one entry per declared layer, in order; the
\* FinalColor entry holds the live frame and every other entry its
\* off-screen capture; the input size is the viewport's; it is dispatched
\* once; and the step that dispatches it stops the grabber.
HasFinalColor(Layers) == \E i \in 1..Len(Layers) : Layers[i] = "FinalColor"

ViewportTasks ==
    { t \in GenerateTasks : t.ImageSourceType = "Viewport" }

C6_ViewportRequestComposed ==
    /\ [](\A t \in ViewportTasks : HasFinalColor(t.Layers) =>
            /\ Len(t.Input.ProcessedLayers) = Len(t.Layers)
            /\ \A i \in 1..Len(t.Layers) :
                /\ t.Input.ProcessedLayers[i].kind = t.Layers[i]
                /\ t.Input.ProcessedLayers[i].LayerPixels =
                        IF t.Layers[i] = "FinalColor"
                        THEN LiveFrame
                        ELSE OffscreenPixels(t.Layers[i], ViewportSize,
                                             "Transient")
            /\ t.Input.InSize = ViewportSize
            /\ req[t.id].dispatches = 1)
    /\ [][ FrameReady => (faulted' \/ ~ViewportCapture'.capturing) ]_vars

C6_Witness ==
    \E t \in ViewportTasks :
        /\ t.Layers = <<"FinalColor", "Depth">>
        /\ ~ViewportCapture.capturing

\* C7: a Viewport request of a model that declares no layer is handed to the
\* backend carrying the live frame, whatever layers the caller's input held.
C7_ZeroLayerRequestCarriesFrame ==
    \A t \in ViewportTasks : t.Layers = <<>> =>
        \E i \in 1..Len(t.Input.ProcessedLayers) :
            t.Input.ProcessedLayers[i].LayerPixels = LiveFrame

\* C8: the capture step of a SceneCapture2D request with an explicit capture
\* source spawns no camera, destroys none and leaves CurrentSceneCapture as
\* it was.
ExplicitSceneCaptureStep ==
    /\ gtQueue # <<>>
    /\ Head(gtQueue).type = "Capture"
    /\ Head(gtQueue).ImageSourceType = "SceneCapture2D"
    /\ Head(gtQueue).Input.CaptureSource # "None"
    /\ GenerateImageGameThread

C8_ExplicitSourceLeavesCameras ==
    [][ ExplicitSceneCaptureStep
            => /\ fx'.spawned = 0
               /\ fx'.destroyed = 0
               /\ CurrentSceneCapture' = CurrentSceneCapture ]_vars

\* An explicit-source request was dispatched after an earlier call had left
\* a torn-down camera in CurrentSceneCapture.
C8_Witness ==
    /\ CurrentSceneCapture.SceneCapture = "destroyed"
    /\ fx = Effects(0, 0, Len(ModelOptions.Layers))
    /\ \E t \in GenerateTasks :
        /\ t.ImageSourceType = "SceneCapture2D"
        /\ t.Input.CaptureSource # "None"
        /\ req[t.id].phase = "dispatched"

\* C9: a SceneCapture2D request holds every declared layer, in order,
\* captured from its one capture source at the capture size (the texture
\* target's resolution if the source has one, else the viewport size); the
\* input size is that size; and its capture step leaves the grabber alone.
SceneCaptureTasks ==
    { t \in GenerateTasks : t.ImageSourceType = "SceneCapture2D" }

SceneCaptureStep ==
    /\ gtQueue # <<>>
    /\ Head(gtQueue).type = "Capture"
    /\ Head(gtQueue).ImageSourceType = "SceneCapture2D"
    /\ GenerateImageGameThread

C9_SceneCaptureRequestComposed ==
    /\ [](\A t \in SceneCaptureTasks :
            LET source == IF t.Input.CaptureSource = "None" THEN "Transient"
                          ELSE t.Input.CaptureSource
                size   == IF t.Input.CaptureSource = "WithTarget"
                          THEN ExplicitTargetSize ELSE ViewportSize
            IN  /\ Len(t.Input.ProcessedLayers) = Len(t.Layers)
                /\ \A i \in 1..Len(t.Layers) :
                    /\ t.Input.ProcessedLayers[i].kind = t.Layers[i]
                    /\ t.Input.ProcessedLayers[i].LayerPixels =
                            OffscreenPixels(t.Layers[i], size, source)
                /\ t.Input.InSize = size)
    /\ [][ SceneCaptureStep => UNCHANGED ViewportCapture ]_vars

C9_Witness ==
    \E t \in SceneCaptureTasks, u \in SceneCaptureTasks :
        /\ t.Input.CaptureSource = "WithTarget"
        /\ u.Input.CaptureSource # "WithTarget"
        /\ Len(t.Layers) = 2
        /\ t.Input.InSize = ExplicitTargetSize
        /\ u.Input.InSize = ViewportSize

\* C10: CopyFrameData returns TargetSize.X * TargetSize.Y elements, writes
\* only inside them, reads only inside the source's BufferSize.X *
\* BufferSize.Y elements and does not fault, zero-area sizes included.
C10_CopyStaysInBoundsAndNeverFaults ==
    cf.pc = "done" =>
        /\ ~cf.out.fault
        /\ Len(cf.out.buf) = cf.TargetSize[1] * cf.TargetSize[2]
        /\ cf.out.writes \subseteq 1..(cf.TargetSize[1] * cf.TargetSize[2])
        /\ cf.out.reads \subseteq 1..(cf.BufferSize[1] * cf.BufferSize[2])

\* C11: CopyFrameData keeps every pixel of the overlapping rectangle at its
\* row and column: element r * TargetSize.X + c of the copy is element
\* r * BufferSize.X + c of the source, for r < min(TargetSize.Y,
\* BufferSize.Y) and c < min(TargetSize.X, BufferSize.X).
C11_CopyPreservesPositions ==
    (cf.pc = "done" /\ ~cf.out.fault) =>
        \A r \in 0..(Min(cf.TargetSize[2], cf.BufferSize[2]) - 1),
           c \in 0..(Min(cf.TargetSize[1], cf.BufferSize[1]) - 1) :
            cf.out.buf[r * cf.TargetSize[1] + c + 1] =
                cf.ColorBuffer[r * cf.BufferSize[1] + c + 1]

\* C12: StopGeneratingImage leaves the in-flight flag false and does not
\* fault, whatever the state it is called in, the bridge being absent
\* included.
C12_StopClearsFlagAndNeverFaults ==
    [][ StopGeneratingImage => (~faulted' /\ ~bIsGenerating') ]_vars

\* C14: without a perspective viewport no capture camera is spawned, and the
\* capture step of a call that needs a transient camera does not fault: it
\* ends with the call awaiting its frame or dispatched.
C14_MissingCameraIsChecked ==
    /\ \A i \in ReqIds : req[i].phase # "faulted"
    /\ ~PerspectiveViewport => fx.spawned = 0

\* C13: UpsampleImage is accepted whenever the bridge exists, whatever the
\* in-flight flag; no step of an upsample changes bIsGenerating; no step of
\* generate or cancel changes bIsUpsampling; and an accepted upsample is
\* pending on the worker pool, or has its one completion queued to the game
\* thread, or has been published exactly once, by a game-thread broadcast.
UpsampleStep ==
    \/ UpsampleImage
    \/ \E task \in bgTasks : UpsampleTask(task)
    \/ OnImageUpsampleComplete

GenerateStep ==
    \/ \E call \in UpsampleCalls : GenerateImage(call[1], call[2])
    \/ StopGeneratingImage
    \/ GenerateImageGameThread
    \/ FrameReady
    \/ \E task \in bgTasks : GenerateImageTask(task, TRUE)
    \/ OnImageGenerationComplete

UpsampleTasksOf(u) ==
    Cardinality({ t \in bgTasks : t.type = "Upsample" /\ t.id = u })

UpsampleCompletionsOf(u) ==
    Cardinality({ k \in 1..Len(gtQueue) :
                    gtQueue[k].type = "UpsampleComplete" /\ gtQueue[k].id = u })

C13_UpsampleIsIndependent ==
    /\ [][ (UpsampleImage /\ GeneratorBridge)
                => \E u \in UpIds : /\ ups[u].phase = "free"
                                    /\ ups'[u].phase = "running" ]_vars
    /\ [][ UpsampleStep => UNCHANGED bIsGenerating ]_vars
    /\ [][ GenerateStep => UNCHANGED bIsUpsampling ]_vars
    /\ [](\A u \in UpIds :
            /\ ups[u].publications =
                    (IF ups[u].phase = "published" THEN 1 ELSE 0)
            /\ UpsampleTasksOf(u) =
                    (IF ups[u].phase = "running" THEN 1 ELSE 0)
            /\ UpsampleCompletionsOf(u) =
                    (IF ups[u].phase = "completed" THEN 1 ELSE 0))
    /\ [](\A k \in 1..Len(ops) :
            ops[k].op = "Broadcast" => ops[k].ctx = "game")

\* An upsample was accepted while a generation was in flight, after an
\* earlier one was published, the flag of the generation still set.
C13_Witness ==
    /\ bIsGenerating
    /\ \E i \in ReqIds : req[i].phase = "dispatched"
    /\ \E u \in UpIds, v \in UpIds :
        /\ ups[u].phase = "published"
        /\ ups[v].phase = "running"

\* Positions in the latest step's calls.
OpIndexes(names) == { k \in 1..Len(ops) : ops[k].op \in names }

LayerOpNames ==
    {"BeginCaptureLayer", "CaptureLayer", "EndCaptureLayer", "ProcessLayer"}

\* The order in which a call moves through its phases.
PhaseOrder ==
    { <<"free", "queued">>, <<"queued", "awaiting">>,
      <<"queued", "dispatched">>, <<"queued", "ignored">>,
      <<"queued", "faulted">>, <<"awaiting", "dispatched">>,
      <<"dispatched", "completed">>, <<"completed", "published">> }

\* C15: within one call, the layer captures all precede the request for the
\* live frame (Viewport) and the backend dispatch; a Viewport call is
\* dispatched only by the delivery of its frame, after the frame is copied,
\* and a SceneCapture2D call only by its capture step; the backend returns
\* before the result is published, which happens only after the dispatch.
C15_PhasesAreOrdered ==
    /\ [](\A l \in OpIndexes(LayerOpNames),
             k \in OpIndexes({"CaptureThisFrame", "StartImageGeneration"}) :
                l < k)
    /\ [](\A c \in OpIndexes({"CopyFrameData"}) :
            /\ OpIndexes(LayerOpNames) = {}
            /\ \A k \in OpIndexes({"StartImageGeneration"}) : c < k)
    /\ [][ \A i \in ReqIds :
            /\ req'[i].phase # req[i].phase =>
                    << req[i].phase, req'[i].phase >> \in PhaseOrder
            /\ (req[i].phase = "queued" /\ req'[i].phase = "awaiting") =>
                    /\ Head(gtQueue).ImageSourceType = "Viewport"
                    /\ OpIndexes({"CaptureThisFrame"})' # {}
            /\ (req[i].phase = "queued" /\ req'[i].phase = "dispatched") =>
                    Head(gtQueue).ImageSourceType = "SceneCapture2D"
            /\ (req[i].phase = "awaiting" /\ req'[i].phase = "dispatched") =>
                    OpIndexes({"CopyFrameData"})' # {}
            /\ req'[i].dispatches # req[i].dispatches =>
                    req'[i].phase = "dispatched"
            /\ req'[i].publications # req[i].publications =>
                    (req[i].phase = "completed" /\ req[i].dispatches = 1) ]_vars

\* A Viewport capture with two layers has just asked for its frame, after an
\* earlier call went through every phase.
C15_Witness ==
    /\ Cardinality(OpIndexes(LayerOpNames)) = 8
    /\ OpIndexes({"CaptureThisFrame"}) # {}
    /\ \E i \in ReqIds, j \in ReqIds :
        req[i].phase = "published" /\ req[j].phase = "awaiting"

\* C16: every layer entry of a request handed to the backend was captured and
\* processed for this request (Begin, Capture, End, Process, in this order,
\* once each), the entries are the declared layers in order, and nothing the
\* caller left in ProcessedLayers is among them.
C16_EveryEntryProcessedForThisRequest ==
    /\ \A t \in GenerateTasks :
        /\ Len(t.Input.ProcessedLayers) = Len(t.Layers)
        /\ \A i \in 1..Len(t.Input.ProcessedLayers) :
            /\ i <= Len(t.Layers) =>
                    t.Input.ProcessedLayers[i].kind = t.Layers[i]
            /\ t.Input.ProcessedLayers[i].LayerPixels.origin \in
                    { t.Input.ProcessedLayers[i].kind, "live" }
    /\ LET L == SelectSeq(ops, LAMBDA o : o.op \in LayerOpNames)
       IN  /\ Len(L) % 4 = 0
           /\ \A m \in 0..((Len(L) \div 4) - 1) :
                /\ L[4 * m + 1].op = "BeginCaptureLayer"
                /\ L[4 * m + 2].op = "CaptureLayer"
                /\ L[4 * m + 3].op = "EndCaptureLayer"
                /\ L[4 * m + 4].op = "ProcessLayer"
                /\ \A d \in 2..4 : L[4 * m + d].layer = L[4 * m + 1].layer

\* C17: the game-thread step of a GenerateImage call leaves the screen
\* messages flag and the editor's game-view mode as they were before it.
C17_StepRestoresEditorState ==
    [][ GenerateImageGameThread
            => /\ GAreScreenMessagesEnabled' = GAreScreenMessagesEnabled
               /\ GameView' = GameView ]_vars

\* C18: a step that spawns a transient capture camera destroys it, once,
\* after every other call on that camera and before the frame request or the
\* backend dispatch; only cameras spawned by the step are destroyed; and no
\* spawned camera is alive once the step is over.
C18_TransientCameraDestroyedOnce ==
    LET Spawns   == { k \in 1..Len(ops) :
                        /\ ops[k].op = "CreateSceneCaptureCamera"
                        /\ ops[k].camera = "Transient" }
        Destroys == OpIndexes({"Destroy"})
    IN  /\ Cardinality(Spawns) <= 1
        /\ Cardinality(Destroys) = Cardinality(Spawns)
        /\ \A d \in Destroys :
            /\ ops[d].camera = "Transient"
            /\ \A k \in 1..Len(ops) :
                (k # d /\ ops[k].camera = "Transient") => k < d
            /\ \A k \in OpIndexes({"CaptureThisFrame", "StartImageGeneration"}) :
                d < k
        /\ fx.spawned = fx.destroyed
        /\ CurrentSceneCapture.SceneCapture # "alive"

\* A second SceneCapture2D call without a capture source has just spawned,
\* used and destroyed its camera, the first one's being long destroyed.
C18_Witness ==
    /\ fx = Effects(1, 1, 2)
    /\ OpIndexes({"Destroy"}) # {}
    /\ OpIndexes({"StartImageGeneration"}) # {}
    /\ CurrentSceneCapture.SceneCapture = "destroyed"
    /\ \A i \in ReqIds : req[i].dispatches = 1

\* C20: layer captures and camera creation and destruction run on the game
\* thread; the request and the grabber's capturing state are not changed on
\* the render thread; the backend's generate and upsample calls run on a
\* worker; completion broadcasts run on the game thread.
C20_CallsRunOnTheirThreads ==
    \A k \in 1..Len(ops) :
        /\ ops[k].op \in (LayerOpNames \cup {"CreateSceneCaptureCamera", "Destroy"})
                => ops[k].ctx = "game"
        /\ ops[k].op \in {"SetLayerPixels", "SetInSize", "StopCapturingFrames"}
                => ops[k].ctx # "render"
        /\ ops[k].op \in {"GenerateImageFromStartImage", "UpsampleImage"}
                => ops[k].ctx = "worker"
        /\ ops[k].op = "Broadcast" => ops[k].ctx = "game"

\* C19: no step of the live preview reads the preview camera while it is
\* absent (the read faults), and the deferred teardown does not destroy the
\* camera, nor end the capture, of a layer whose preview was set after the
\* teardown was queued.
C19_PreviewCameraNeverReadAbsent ==
    /\ [](~faulted)
    /\ [][ (PreviewTeardown /\ PreviewedLayer # "null")
                => /\ LayerPreviewCapture' = LayerPreviewCapture
                   /\ OpIndexes({"EndCaptureLayer"})' = {} ]_vars

\* C22: the frame of a Viewport request is delivered while on-screen
\* messages are still off and, outside a play session, game view is still
\* forced on, as the game-thread step set them for the capture.
C22_FrameGrabbedWhileViewportClean ==
    [][ FrameReady
            => /\ ~GAreScreenMessagesEnabled
               /\ (PlaySessionInProgress \/ GameView) ]_vars

\* C23: bIsUpsampling is true exactly while some accepted UpsampleImage call
\* has not yet published its completion.
UpsamplesPending ==
    { u \in UpIds : ups[u].phase \in {"running", "completed"} }

C23_UpsampleFlagIsAccurate ==
    bIsUpsampling <=> (UpsamplesPending # {})

\* C24: once StopGeneratingImage has been called while an accepted call is
\* not yet dispatched (its capture step is still queued, or its frame is
\* still awaited), that call is never dispatched; and the in-flight flag
\* is only ever set by an accepted GenerateImage call.
NotYetDispatched ==
    { i \in ReqIds : req[i].phase \in {"queued", "awaiting"} }

StopJustCalled ==
    ops = << Op("StopImageGeneration", "game", "none", "none") >>

C24_StopBeforeDispatchPreventsIt ==
    /\ \A i \in ReqIds :
            []((StopJustCalled /\ i \in NotYetDispatched)
                    => [](req[i].dispatches = 0))
    /\ [][ (~bIsGenerating /\ bIsGenerating')
                => (GenerateImageCall /\ GeneratorBridge) ]_vars

\* C25: every accepted GenerateImage call is eventually followed by a state
\* in which the in-flight flag is false.
C25_FlagEventuallyFalse ==
    \A i \in ReqIds : (req[i].phase = "queued") ~> ~bIsGenerating

\* C21: the layers a capture step works through are the layers of one
\* model, in order: those ModelOptions holds when the step runs, or those of
\* a model InitModel is assigning at that moment; and the step does not
\* fault.
CaptureStepTaken ==
    /\ gtQueue # <<>>
    /\ Head(gtQueue).type = "Capture"
    /\ Head(gtQueue).ImageSourceType \in {"Viewport", "SceneCapture2D"}
    /\ gtQueue' = Tail(gtQueue)

CapturedLayers ==
    LET P == SelectSeq(ops, LAMBDA o : o.op = "ProcessLayer")
    IN  [k \in 1..Len(P) |-> P[k].layer]

C21_LayersComeFromOneModel ==
    [][ CaptureStepTaken
            => /\ ~faulted'
               /\ CapturedLayers' \in
                    {ModelOptions.Layers}
                        \cup { w.Layers : w \in WritesInProgress } ]_vars

====
